---- MODULE Spec2Model ----
(***************************************************************************)
(* Verification model of the validation/scoring core of KAG_LlamaIndex:    *)
(*   - NewsHybridRetriever (src/app/rag/hybrid_retriever.py): reciprocal   *)
(*     rank fusion of a sparse and a dense hit list;                       *)
(*   - RLMEvaluator (src/core/rlm_evaluator.py): claim decomposition and   *)
(*     depth-bounded claim verification;                                   *)
(*   - KnowledgeGraphManager (src/app/graph/knowledge_graph.py): evidence  *)
(*     graph synchronisation and draft validation on a shared graph store, *)
(*     the six metrics and analyze_with_cypher;                            *)
(*   - QueryDecomposer (src/app/rag/decomposer.py);                        *)
(*   - NewsRAGSolver.recommend_similar_articles (src/app/rag/solver.py);   *)
(*   - NewsAppGraph (src/app/rag/graph_flow.py).                           *)
(* Each component has its own specification (SpecFusion, SpecVerifier,     *)
(* SpecGraphSeq, SpecGraph, SpecMetrics, SpecDecomposer, SpecAnalyze,      *)
(* SpecRecommend, SpecFlow); the variables of the other components stay at *)
(* their initial values.                                                   *)
(***************************************************************************)
EXTENDS Integers, Sequences, FiniteSets, TLC

VARIABLES
    \* ---- NewsHybridRetriever ----
    fpc,             \* position of the retriever call: "idle" | "done"
    k,               \* NewsHybridRetriever.k
    sparse_docs,     \* result of sparse_retriever.invoke(query)
    dense_docs,      \* result of dense_retriever.invoke(query)
    doc_scores,      \* the dict doc_scores, in insertion order
    sorted_results,  \* sorted(doc_scores.values(), key=score, reverse=True)
    fused,           \* the returned list of documents
    \* ---- RLMEvaluator ----
    vpc,             \* "idle" | "verifying" | "done" | "raised" | "vc_done"
    proposal,        \* the argument of evaluate
    response,        \* what self.client.completion gave decompose_claims
    claims,          \* the result of decompose_claims
    verification_results,  \* the list evaluate builds, one result per claim
    trace,           \* the value evaluate returns
    llm_calls,       \* number of self.client.completion calls made
    agent_runs,      \* the RLM_REPL sub-agents created and run, in order
    vc_depth,        \* the depth argument of a direct verify_claim call
    vc_result,       \* the value a direct verify_claim call returns
    \* ---- KnowledgeGraphManager and the shared Neo4j graph store ----
    workers,         \* the workers that call the manager
    graph,           \* the graph store: the set of its (subject, relation, object) edges
    calls,           \* number of handler calls started so far
    gpc,             \* per worker: position inside its current handler call
    op,              \* per worker: "none" | "validate" | "ingest" | "analyze"
    context,         \* per worker: context_nodes / retrieved_nodes of the call
    extracted,       \* per worker: the triples the extractor gave for those nodes
    failed_docs,     \* per worker: the documents whose extraction failed in the running sync
    pending,         \* per worker: extracted relations not yet upserted
    writes,          \* per worker: the graph writes of the call, in order
    existing_knowledge,  \* per worker: rows read at lines 175-177
    user_triplets,   \* per worker: triples extracted from the draft (in memory)
    last_user_triplets,  \* user_triplets of the validation that returned last
    validations_done, \* number of validate_user_article calls that returned
    \* ---- KnowledgeGraphManager.calculate_hexagonal_metrics ----
    mpc,             \* position of the metrics call: "idle" | "done"
    conn_res,        \* what the connectivity query gives
    depth_res,       \* what the depth query gives
    judge,           \* what self.llm.complete gives for each judged metric
    metric_results,  \* the argument `results'
    metrics,         \* the dict the call returns
    caught,          \* whether the except clause of the call ran
    \* ---- QueryDecomposer ----
    dpc,             \* position of decompose_article: "idle" | "done" | "raised"
    article_content, \* the argument of decompose_article
    llm_text,        \* str(response) of self.llm.acomplete(prompt)
    acomplete_calls, \* number of self.llm.acomplete calls made
    analysis,        \* the ArticleAnalysisResult returned
    \* ---- KnowledgeGraphManager.analyze_with_cypher ----
    apc,             \* position of the call: "idle" | "returned" | "raised"
    cypher_query,    \* the query text the LLM generated
    query_outcome,   \* what graph_store.query(cypher_query) did
    llm_prompts,     \* the prompts given to self.llm.complete during the call
    analysis_report, \* the value the call returns
    \* ---- NewsRAGSolver.recommend_similar_articles ----
    rpc,             \* "idle" | "searching" | "merged" | "raised"
    facet_hits,      \* per facet: the source nodes its retrieval finds
    search_tasks,    \* per facet: "pending" | "done" | "raised"
    completion_order, \* the facets in the order their retrievals completed
    search_results,  \* the list gather returned
    unique_nodes,    \* the dict unique_nodes, in insertion order
    final_nodes,     \* list(unique_nodes.values())
    \* ---- NewsAppGraph ----
    wpc,             \* the node to run next, "idle", "END" or "raised"
    agent_state,     \* the AgentState of the run
    executed         \* the nodes run so far, in order

fusionVars == <<fpc, k, sparse_docs, dense_docs, doc_scores, sorted_results, fused>>

verifierVars == <<vpc, proposal, response, claims, verification_results, trace,
                  llm_calls, agent_runs, vc_depth, vc_result>>

graphVars == <<workers, graph, calls, gpc, op, context, extracted, failed_docs, pending,
               writes, existing_knowledge, user_triplets, last_user_triplets,
               validations_done>>

metricsVars == <<mpc, conn_res, depth_res, judge, metric_results, metrics, caught>>

decomposerVars == <<dpc, article_content, llm_text, acomplete_calls, analysis>>

analyzeVars == <<apc, cypher_query, query_outcome, llm_prompts, analysis_report>>

recommendVars == <<rpc, facet_hits, search_tasks, completion_order, search_results,
                   unique_nodes, final_nodes>>

flowVars == <<wpc, agent_state, executed>>

-----------------------------------------------------------------------------
(***************************************************************************)
(* Generic helpers.                                                        *)
(***************************************************************************)
Min(a, b) == IF a <= b THEN a ELSE b

Range(s) == {s[i] : i \in 1..Len(s)}

RECURSIVE Gcd(_, _)
Gcd(a, b) == IF b = 0 THEN a ELSE Gcd(b, a % b)

Lcm(a, b) == (a * b) \div Gcd(a, b)

\* The elements of a finite set, in some fixed order.
RECURSIVE SetToSeq(_)
SetToSeq(S) ==
    IF S = {} THEN <<>>
    ELSE LET x == CHOOSE y \in S : TRUE IN <<x>> \o SetToSeq(S \ {x})

\* All sequences over S without a repeated element, of length at most n.
RECURSIVE InjSeqs(_, _)
InjSeqs(S, n) ==
    IF n = 0 THEN {<<>>}
    ELSE LET shorter == InjSeqs(S, n - 1)
         IN  shorter \cup
             {Append(p[1], p[2]) :
                 p \in {q \in shorter \X S : Len(q[1]) = n - 1 /\ q[2] \notin Range(q[1])}}

-----------------------------------------------------------------------------
(***************************************************************************)
(* NewsHybridRetriever: documents and their identity keys.                 *)
(* A string is a sequence of character codes.  A document is a record of   *)
(* its metadata (a dict: a function on the keys it holds) and its          *)
(* page_content.                                                           *)
(***************************************************************************)

\* Bounds of the model.
MaxLen == 3

MaxK == 2

\* NewsHybridRetriever.c, the RRF constant.
c == 60

\* The length of the content prefix that stands in for a missing news_id.
PrefixLen == 50

\* A page_content longer than PrefixLen.
LongContent == [i \in 1..(PrefixLen + 1) |-> IF i <= PrefixLen THEN 1 ELSE 2]

\* The stored documents: two chunks of article A (same news_id), one chunk
\* each of articles B and C, and a document without news_id, whose identity
\* is the prefix of its content.
DocA1 == [metadata |-> [news_id |-> <<65>>], page_content |-> <<7, 1>>]
DocA2 == [metadata |-> [news_id |-> <<65>>], page_content |-> <<7, 2>>]
DocB  == [metadata |-> [news_id |-> <<66>>], page_content |-> <<8>>]
DocC  == [metadata |-> [news_id |-> <<67>>], page_content |-> <<9>>]
DocP  == [metadata |-> [title |-> <<80>>], page_content |-> LongContent]

Docs == {DocA1, DocA2, DocB, DocC, DocP}

\* What a retriever can return: up to MaxLen distinct stored documents, in
\* rank order.
HitLists == InjSeqs(Docs, MaxLen)

\* doc.metadata.get("news_id", doc.page_content[:50])
doc_id(doc) ==
    IF "news_id" \in DOMAIN doc.metadata
    THEN doc.metadata["news_id"]
    ELSE SubSeq(doc.page_content, 1, Min(PrefixLen, Len(doc.page_content)))

\* Scores are exact rationals over the common denominator Scale, the least
\* common multiple of every rank + c that can occur; a score is stored as
\* its numerator.
RECURSIVE LcmUpTo(_)
LcmUpTo(n) == IF n = 0 THEN 1 ELSE Lcm(LcmUpTo(n - 1), (n - 1) + c)

Scale == LcmUpTo(MaxLen)

\* score = 1.0 / (rank + self.c); rank is zero-based (enumerate).
RrfScore(rank) == Scale \div (rank + c)

\* Index of the entry of `scores' whose key is `id', 0 when there is none.
KeyIndex(scores, id) ==
    IF \E i \in 1..Len(scores) : scores[i].id = id
    THEN CHOOSE i \in 1..Len(scores) : scores[i].id = id
    ELSE 0

\* doc_scores[doc_id] = {"score": score, "doc": doc}: a dict assignment
\* replaces the value of a key already present (the key keeps its place in
\* the insertion order) and appends a new key.
DictSet(scores, id, entry) ==
    LET i == KeyIndex(scores, id)
    IN  IF i = 0 THEN Append(scores, entry) ELSE [scores EXCEPT ![i] = entry]

\* A sparse loop that adds to the score of a key already present.
RECURSIVE ScoreSparseSummed(_, _, _)
ScoreSparseSummed(scores, docs, n) ==
    IF n > Len(docs) THEN scores
    ELSE LET doc == docs[n]
             id  == doc_id(doc)
             i   == KeyIndex(scores, id)
             nxt == IF i # 0
                    THEN [scores EXCEPT ![i].score = @ + RrfScore(n - 1)]
                    ELSE Append(scores,
                                [id |-> id, score |-> RrfScore(n - 1), doc |-> doc])
         IN  ScoreSparseSummed(nxt, docs, n + 1)

\* The sparse loop (lines 23-26), ranks n+1 .. Len(docs) still to do.
RECURSIVE ScoreSparse(_, _, _)
ScoreSparse(scores, docs, n) ==
    IF n > Len(docs) THEN scores
    ELSE LET doc == docs[n]
             id  == doc_id(doc)
         IN  ScoreSparse(DictSet(scores, id,
                                 [id |-> id, score |-> RrfScore(n - 1), doc |-> doc]),
                         docs, n + 1)

\* The dense loop (lines 29-35).
RECURSIVE ScoreDense(_, _, _)
ScoreDense(scores, docs, n) ==
    IF n > Len(docs) THEN scores
    ELSE LET doc == docs[n]
             id  == doc_id(doc)
             i   == KeyIndex(scores, id)
             nxt == IF i # 0
                    THEN [scores EXCEPT ![i].score = @ + RrfScore(n - 1)]
                    ELSE Append(scores,
                                [id |-> id, score |-> RrfScore(n - 1), doc |-> doc])
         IN  ScoreDense(nxt, docs, n + 1)

Fuse(sparse, dense) == ScoreDense(ScoreSparse(<<>>, sparse, 1), dense, 1)

\* An insertion that puts e before the elements of equal score.
RECURSIVE InsertBeforeTies(_, _)
InsertBeforeTies(sorted, e) ==
    IF sorted = <<>> THEN <<e>>
    ELSE IF Head(sorted).score > e.score
         THEN <<Head(sorted)>> \o InsertBeforeTies(Tail(sorted), e)
         ELSE <<e>> \o sorted

\* list.sort is stable; with reverse=True equal keys keep their original
\* order.  Insert e after every element whose score is >= e.score.
RECURSIVE InsertDesc(_, _)
InsertDesc(sorted, e) ==
    IF sorted = <<>> THEN <<e>>
    ELSE IF Head(sorted).score >= e.score
         THEN <<Head(sorted)>> \o InsertDesc(Tail(sorted), e)
         ELSE <<e>> \o sorted

RECURSIVE InsertAsc(_, _)
InsertAsc(sorted, e) ==
    IF sorted = <<>> THEN <<e>>
    ELSE IF Head(sorted).score <= e.score
         THEN <<Head(sorted)>> \o InsertAsc(Tail(sorted), e)
         ELSE <<e>> \o sorted

RECURSIVE SortAscending(_)
SortAscending(entries) ==
    IF entries = <<>> THEN <<>>
    ELSE InsertAsc(SortAscending(SubSeq(entries, 1, Len(entries) - 1)),
                   entries[Len(entries)])

RECURSIVE SortedByScore(_)
SortedByScore(entries) ==
    IF entries = <<>> THEN <<>>
    ELSE InsertDesc(SortedByScore(SubSeq(entries, 1, Len(entries) - 1)),
                    entries[Len(entries)])

\* [res["doc"] for res in sorted_results[:self.k]], for k >= 0.
TopK(sorted, kk) == [i \in 1..Min(kk, Len(sorted)) |-> sorted[i].doc]

FusionInit ==
    /\ fpc = "idle"
    /\ k \in 0..MaxK
    /\ sparse_docs = <<>>
    /\ dense_docs = <<>>
    /\ doc_scores = <<>>
    /\ sorted_results = <<>>
    /\ fused = <<>>

\* NewsHybridRetriever._get_relevant_documents, the whole call.
GetRelevantDocuments ==
    /\ fpc = "idle"
    /\ \E s \in HitLists, d \in HitLists :
          LET scores == Fuse(s, d)
              sorted == SortedByScore(scores)
          IN  /\ sparse_docs' = s
              /\ dense_docs' = d
              /\ doc_scores' = scores
              /\ sorted_results' = sorted
              /\ fused' = TopK(sorted, k)
    /\ fpc' = "done"
    /\ UNCHANGED k

-----------------------------------------------------------------------------
(***************************************************************************)
(* RLMEvaluator.  A confidence is kept in tenths (0.5 is 5, 0.9 is 9).     *)
(* A result dict is a record over all the keys a result can hold; a key    *)
(* the dict does not hold has the value NoValue.                           *)
(***************************************************************************)

\* Bounds of the model.
MaxClaims == 2

MaxDepthArg == 4

\* self.max_depth
max_depth == 3

NoValue == "<absent>"

\* A call that passes no depth argument.
NoDepth == "<no depth>"

ClaimTexts == {"claim1", "claim2"}

Proposals == {"proposal1", "proposal2"}

\* Non-empty lists of at most n claims.
ClaimLists(n) == UNION {[1..m -> ClaimTexts] : m \in 1..n}

\* A JSON value as Python holds it: its type ("list" is a list of strings)
\* and the strings a for loop over it yields (the keys of a dict).
JsonValue(type, items) == [type |-> type, items |-> items]

\* What self.client.completion can do in decompose_claims.  A response is
\* taken by what _parse_json_list sees in it: `match' is the first match of
\* the pattern of line 89, a character class of "[", "." and "*" followed
\* by "]" ("none" when nothing matches), and `json' is what json.loads
\* makes of the whole text ("invalid" when it raises), with `items' the
\* strings of that value.
\*   json_list        ["claim1", "claim2"]
\*   empty_list       []
\*   inner_brackets   ["claim1 []"]: a list one of whose strings holds "[]"
\*   prose            a text that is no JSON and holds no match
\*   prose_dot        a text that is no JSON and holds ".]"
\*   prose_brackets   a text that is no JSON and holds "[]"
\*   json_object      {"claims": ["claim1"]}
\*   json_numbers     [1, 2]
\*   error            the call raises (OpenAIClient.completion wraps every
\*                    failure in a RuntimeError)
Response(kind, match, json, items) ==
    [kind |-> kind, match |-> match, json |-> json, items |-> items]

DecomposeResponses ==
    {Response("json_list", "none", "list", l) : l \in ClaimLists(MaxClaims)}
    \cup {Response("inner_brackets", "[]", "list", l) : l \in ClaimLists(1)}
    \cup {Response("empty_list", "[]", "list", <<>>),
          Response("prose", "none", "invalid", <<>>),
          Response("prose_dot", ".]", "invalid", <<>>),
          Response("prose_brackets", "[]", "invalid", <<>>),
          Response("json_object", "none", "dict", <<"claims">>),
          Response("json_numbers", "none", "numbers", <<"1", "2">>),
          Response("error", "none", "invalid", <<>>)}

\* _parse_json_list(text, fallback): json.loads of the match when there is
\* one ("[]" loads as the empty list, the other matches are no JSON), else
\* json.loads of the whole text; the fallback when json.loads raises.
ParseJsonList(resp, fallback) ==
    IF resp.match # "none"
    THEN (IF resp.match = "[]" THEN JsonValue("list", <<>>) ELSE fallback)
    ELSE (IF resp.json = "invalid" THEN fallback ELSE JsonValue(resp.json, resp.items))

\* What rlm.completion can do: return a final answer, or raise.
AgentAnswers == {"True", "False", "Unverified"}

AgentOutcomes == AgentAnswers \cup {"raise"}

ResultDict(claim, verified, reason, output, error, confidence) ==
    [claim |-> claim, verified |-> verified, reason |-> reason,
     output |-> output, error |-> error, confidence |-> confidence]

\* verify_with_rlm(claim): creates an RLM_REPL(api_key, model,
\* enable_logging) and runs rlm.completion(context=[], query=query).  The
\* method has no depth parameter and neither call carries a depth.  `runs'
\* is what the call adds to agent_runs: the sub-agent it started, with the
\* depth that sub-agent was given.
verify_with_rlm(claim, outcome) ==
    [result |-> IF outcome = "raise"
                THEN ResultDict(claim, FALSE, NoValue, NoValue, "error", 0)
                ELSE ResultDict(claim, TRUE, NoValue, outcome, NoValue, 9),
     runs   |-> <<[claim |-> claim, depth |-> NoDepth]>>]

\* A sub-agent run, with the depth of the verify_claim call that started it.
StartedAt(run, depth) ==
    [claim |-> run.claim, depth |-> run.depth, parent_depth |-> depth]

VerifyClaimOffByOne(claim, depth, outcome) ==
    IF depth > max_depth
    THEN [result |-> ResultDict(claim, FALSE, "Max depth reached", NoValue, NoValue, 5),
          runs   |-> <<>>]
    ELSE LET got == verify_with_rlm(claim, outcome)
         IN  [result |-> got.result,
              runs   |-> [i \in 1..Len(got.runs) |-> StartedAt(got.runs[i], depth)]]

\* verify_claim(claim, depth)
verify_claim(claim, depth, outcome) ==
    IF depth >= max_depth
    THEN [result |-> ResultDict(claim, FALSE, "Max depth reached", NoValue, NoValue, 5),
          runs   |-> <<>>]
    ELSE LET got == verify_with_rlm(claim, outcome)
         IN  [result |-> got.result,
              runs   |-> [i \in 1..Len(got.runs) |-> StartedAt(got.runs[i], depth)]]

RECURSIVE SumConfidence(_)
SumConfidence(results) ==
    IF results = <<>> THEN 0
    ELSE Head(results).confidence + SumConfidence(Tail(results))

AggregateScoreSum(results) ==
    IF results = <<>> THEN <<0, 1>> ELSE <<SumConfidence(results), 1>>

\* calculate_aggregate_score: the mean as the fraction <<total, count>> of
\* tenths, <<0, 1>> for no results.
calculate_aggregate_score(results) ==
    IF results = <<>> THEN <<0, 1>> ELSE <<SumConfidence(results), Len(results)>>

VerifierInit ==
    /\ vpc = "idle"
    /\ proposal = NoValue
    /\ response = Response("prose", "none", "invalid", <<>>)
    /\ claims = JsonValue("list", <<>>)
    /\ verification_results = <<>>
    /\ trace = NoValue
    /\ llm_calls = 0
    /\ agent_runs = <<>>
    /\ vc_depth = NoDepth
    /\ vc_result = NoValue

\* evaluate, up to the return of decompose_claims (line 21).
EvaluateDecompose ==
    /\ vpc = "idle"
    /\ \E text \in Proposals, resp \in DecomposeResponses :
          /\ proposal' = text
          /\ response' = resp
          /\ llm_calls' = llm_calls + 1
          /\ IF resp.kind = "error"
             THEN /\ vpc' = "raised"
                  /\ claims' = claims
             ELSE /\ vpc' = "verifying"
                  /\ claims' = ParseJsonList(resp, JsonValue("list", <<text>>))
    /\ UNCHANGED <<verification_results, trace, agent_runs, vc_depth, vc_result>>

\* A loop that takes the claims from the last one to the first.
EvaluateVerifyBackwards ==
    /\ vpc = "verifying"
    /\ Len(verification_results) < Len(claims.items)
    /\ \E outcome \in AgentOutcomes :
          LET claim == claims.items[Len(claims.items) - Len(verification_results)]
              got   == verify_claim(claim, 0, outcome)
          IN  /\ verification_results' = Append(verification_results, got.result)
              /\ agent_runs' = agent_runs \o got.runs
    /\ UNCHANGED <<vpc, proposal, response, claims, trace, llm_calls, vc_depth, vc_result>>

\* One turn of the loop of evaluate (lines 24-27): the next claim is
\* verified at depth 0 and its result appended.
EvaluateVerifyNext ==
    /\ vpc = "verifying"
    /\ Len(verification_results) < Len(claims.items)
    /\ \E outcome \in AgentOutcomes :
          LET claim == claims.items[Len(verification_results) + 1]
              got   == verify_claim(claim, 0, outcome)
          IN  /\ verification_results' = Append(verification_results, got.result)
              /\ agent_runs' = agent_runs \o got.runs
    /\ UNCHANGED <<vpc, proposal, response, claims, trace, llm_calls, vc_depth, vc_result>>

\* The end of evaluate (lines 30-35).
EvaluateReturn ==
    /\ vpc = "verifying"
    /\ Len(verification_results) = Len(claims.items)
    /\ trace' = [proposal |-> proposal,
                 claims   |-> verification_results,
                 score    |-> calculate_aggregate_score(verification_results)]
    /\ vpc' = "done"
    /\ UNCHANGED <<proposal, response, claims, verification_results, llm_calls,
                   agent_runs, vc_depth, vc_result>>

\* A direct call verify_claim(claim, depth) on a fresh evaluator.
VerifyClaimCall ==
    /\ vpc = "idle"
    /\ \E claim \in ClaimTexts, depth \in 0..MaxDepthArg, outcome \in AgentOutcomes :
          LET got == verify_claim(claim, depth, outcome)
          IN  /\ vc_depth' = depth
              /\ vc_result' = got.result
              /\ agent_runs' = agent_runs \o got.runs
    /\ vpc' = "vc_done"
    /\ UNCHANGED <<proposal, response, claims, verification_results, trace, llm_calls>>

VerifierNext ==
    \/ EvaluateDecompose
    \/ EvaluateVerifyNext
    \/ EvaluateReturn
    \/ VerifyClaimCall

-----------------------------------------------------------------------------
(***************************************************************************)
(* KnowledgeGraphManager on the shared graph store.  The store is a Neo4j  *)
(* database: every graph_store.query and every upsert_triplet is one       *)
(* statement of its own, and nothing in the manager locks the store or     *)
(* groups statements into a transaction.  A worker's call advances one     *)
(* store statement (or one LLM call) per step.                             *)
(***************************************************************************)

\* Bounds of the model.
MaxCalls == 2

\* LIMIT 100 of the existing_knowledge query.
KnowledgeLimit == 100

Procs == {1, 2}

\* The triples an extractor can give: two well-formed ones, forming a
\* two-hop path, and one whose source_id is empty.
T1 == <<"Kang", "SENTENCED", "Court">>
T2 == <<"Court", "LOCATED_IN", "Seoul">>
TNoSource == <<"", "RELATED", "Seoul">>

Triples == {T1, T2, TNoSource}

\* The context_nodes / retrieved_nodes a call can be given.
Contexts == {{}, {"node1", "node2"}}

\* What the extractor can give for a draft.
DraftTriplets == SUBSET {T1, T2}

\* SimpleLLMPathExtractor over a batch of documents: the LLM decides the
\* triples; no document gives no triple.
Extractions(nodes) == IF nodes = {} THEN {{}} ELSE SUBSET Triples

\* The documents of a batch whose extraction fails: none, or one of them.
FailedDocs(nodes) == {{}} \cup (IF "node1" \in nodes THEN {{"node1"}} ELSE {})

\* upsert_relations (storage.py): a relation with an empty source_id or
\* target_id is skipped, any other is written with upsert_triplet (MERGE).
Writable(t) == t[1] # "" /\ t[3] # ""

WritableOf(ts) == {t \in ts : Writable(t)}

UpsertClearsFirst(g, t) == IF Writable(t) THEN {t} ELSE g

UpsertRelation(g, t) == IF Writable(t) THEN g \cup {t} ELSE g

ClearDraftLabelOnly(g) == g

\* graph_store.query("MATCH (n) DETACH DELETE n")
ClearGraph(g) == {}

\* MATCH (n)-[r]->(m) RETURN ... LIMIT 100: every edge, or any 100 of them.
KnowledgeRows(g) ==
    IF Cardinality(g) <= KnowledgeLimit THEN {g}
    ELSE {rows \in SUBSET g : Cardinality(rows) = KnowledgeLimit}

DraftExtractionSynced(g, triplets) ==
    [graph |-> g \cup WritableOf(triplets), wrote |-> WritableOf(triplets)]

\* extractor.acall([temp_doc]) (lines 180-182): the draft's triples are
\* returned to the caller; the store is not touched.  `graph' is the store
\* after the step, `wrote' the triples the step writes to it.
DraftExtraction(g, triplets) == [graph |-> g, wrote |-> {}]

ClearWrite == [op |-> "clear", triple |-> <<>>, label |-> NoValue]

UpsertWrite(t, label) == [op |-> "upsert", triple |-> t, label |-> label]

\* label of sync_to_neo4j: "VerifiedSource" from validate_user_article, the
\* default "Article" from an ingestion.
SyncLabel(p) == IF op[p] = "validate" THEN "VerifiedSource" ELSE "Article"

CanStart(p) == p \in workers /\ gpc[p] = "idle" /\ calls < MaxCalls

\* The fields of worker p at the start of a call.
BeginCall(p, handler, nodes) ==
    /\ calls' = calls + 1
    /\ op' = [op EXCEPT ![p] = handler]
    /\ context' = [context EXCEPT ![p] = nodes]
    /\ UNCHANGED <<extracted, failed_docs, pending, existing_knowledge, user_triplets>>

\* The call of worker p returns: its locals are gone.
EndCall(p) ==
    /\ gpc' = [gpc EXCEPT ![p] = "idle"]
    /\ op' = [op EXCEPT ![p] = "none"]
    /\ context' = [context EXCEPT ![p] = {}]
    /\ extracted' = [extracted EXCEPT ![p] = {}]
    /\ failed_docs' = [failed_docs EXCEPT ![p] = {}]
    /\ pending' = [pending EXCEPT ![p] = {}]
    /\ writes' = [writes EXCEPT ![p] = <<>>]
    /\ existing_knowledge' = [existing_knowledge EXCEPT ![p] = {}]
    /\ user_triplets' = [user_triplets EXCEPT ![p] = {}]

GraphInit ==
    /\ graph \in SUBSET WritableOf(Triples)
    /\ calls = 0
    /\ gpc = [p \in Procs |-> "idle"]
    /\ op = [p \in Procs |-> "none"]
    /\ context = [p \in Procs |-> {}]
    /\ extracted = [p \in Procs |-> {}]
    /\ failed_docs = [p \in Procs |-> {}]
    /\ pending = [p \in Procs |-> {}]
    /\ writes = [p \in Procs |-> <<>>]
    /\ existing_knowledge = [p \in Procs |-> {}]
    /\ user_triplets = [p \in Procs |-> {}]
    /\ last_user_triplets = {}
    /\ validations_done = 0

\* validate_user_article, lines 165-169: the call starts and clears the store.
ValidateClear(p) ==
    /\ CanStart(p)
    /\ \E nodes \in Contexts : BeginCall(p, "validate", nodes)
    /\ graph' = ClearGraph(graph)
    /\ writes' = [writes EXCEPT ![p] = <<ClearWrite>>]
    /\ gpc' = [gpc EXCEPT ![p] = "sync_extract"]
    /\ UNCHANGED <<workers, last_user_triplets, validations_done>>

\* A general ingestion: sync_to_neo4j(nodes) called on its own
\* (main_neo4j_demo.py line 43).
IngestStart(p) ==
    /\ CanStart(p)
    /\ \E nodes \in Contexts : BeginCall(p, "ingest", nodes)
    /\ writes' = [writes EXCEPT ![p] = <<>>]
    /\ gpc' = [gpc EXCEPT ![p] = "sync_extract"]
    /\ UNCHANGED <<workers, graph, last_user_triplets, validations_done>>

\* sync_to_neo4j, the extraction inside PropertyGraphIndex.from_documents
\* (lines 31-36), when no extraction raises: a document whose extraction
\* failed inside the extractor gives no triple, the others give theirs.
SyncExtract(p) ==
    /\ p \in workers
    /\ gpc[p] = "sync_extract"
    /\ \E failed \in FailedDocs(context[p]) :
          \E ex \in Extractions(context[p] \ failed) :
              /\ failed_docs' = [failed_docs EXCEPT ![p] = failed]
              /\ extracted' = [extracted EXCEPT ![p] = ex]
              /\ pending' = [pending EXCEPT ![p] = ex]
    /\ gpc' = [gpc EXCEPT ![p] = "sync_upsert"]
    /\ UNCHANGED <<workers, graph, calls, op, context, writes,
                   existing_knowledge, user_triplets, last_user_triplets,
                   validations_done>>

\* The same extraction when the extractor raises on one document (an LLM
\* call that fails): sync_to_neo4j has no handler around from_documents, so
\* the exception is on its way out of it and nothing of the batch is
\* written.
SyncExtractRaises(p) ==
    /\ p \in workers
    /\ gpc[p] = "sync_extract"
    /\ \E failed \in FailedDocs(context[p]) \ {{}} :
          failed_docs' = [failed_docs EXCEPT ![p] = failed]
    /\ gpc' = [gpc EXCEPT ![p] = "sync_raised"]
    /\ UNCHANGED <<workers, graph, calls, op, context, extracted, pending, writes,
                   existing_knowledge, user_triplets, last_user_triplets,
                   validations_done>>

\* The exception leaves sync_to_neo4j and, in a validation run, leaves
\* validate_user_article (line 172 is in no try block).
SyncRaise(p) ==
    /\ p \in workers
    /\ gpc[p] = "sync_raised"
    /\ EndCall(p)
    /\ UNCHANGED <<workers, graph, calls, last_user_triplets, validations_done>>

\* sync_to_neo4j, one turn of the loop of upsert_relations: the triple is
\* written, or store.upsert_triplet raises and the bare except drops it.
SyncUpsert(p) ==
    /\ p \in workers
    /\ gpc[p] = "sync_upsert"
    /\ \E t \in pending[p], raised \in BOOLEAN :
          /\ graph' = IF raised THEN graph ELSE UpsertRelation(graph, t)
          /\ writes' = [writes EXCEPT ![p] =
                           IF Writable(t) /\ ~raised
                           THEN Append(@, UpsertWrite(t, SyncLabel(p)))
                           ELSE @]
          /\ pending' = [pending EXCEPT ![p] = @ \ {t}]
    /\ UNCHANGED <<workers, calls, gpc, op, context, extracted, failed_docs,
                   existing_knowledge, user_triplets, last_user_triplets,
                   validations_done>>

\* sync_to_neo4j returns: to validate_user_article (line 172), or to the
\* caller of the ingestion.
SyncReturn(p) ==
    /\ p \in workers
    /\ gpc[p] = "sync_upsert"
    /\ pending[p] = {}
    /\ IF op[p] = "validate"
       THEN /\ gpc' = [gpc EXCEPT ![p] = "read_knowledge"]
            /\ failed_docs' = [failed_docs EXCEPT ![p] = {}]
            /\ UNCHANGED <<op, context, extracted, pending, writes,
                           existing_knowledge, user_triplets>>
       ELSE EndCall(p)
    /\ UNCHANGED <<workers, graph, calls, last_user_triplets, validations_done>>

\* validate_user_article, lines 175-177.
ReadKnowledge(p) ==
    /\ p \in workers
    /\ gpc[p] = "read_knowledge"
    /\ \E rows \in KnowledgeRows(graph) :
          existing_knowledge' = [existing_knowledge EXCEPT ![p] = rows]
    /\ gpc' = [gpc EXCEPT ![p] = "draft_extract"]
    /\ UNCHANGED <<workers, graph, calls, op, context, extracted, failed_docs, pending,
                   writes, user_triplets, last_user_triplets, validations_done>>

\* validate_user_article, lines 180-194: the draft's triples are extracted
\* and classified against existing_knowledge by the LLM.
ExtractDraft(p) ==
    /\ p \in workers
    /\ gpc[p] = "draft_extract"
    /\ \E triplets \in DraftTriplets :
          LET step == DraftExtraction(graph, triplets)
          IN  /\ user_triplets' = [user_triplets EXCEPT ![p] = triplets]
              /\ graph' = step.graph
              /\ writes' = [writes EXCEPT ![p] =
                               @ \o [i \in 1..Cardinality(step.wrote) |->
                                        UpsertWrite(SetToSeq(step.wrote)[i], "Draft")]]
    /\ gpc' = [gpc EXCEPT ![p] = "metric_connectivity"]
    /\ UNCHANGED <<workers, calls, op, context, extracted, failed_docs, pending,
                   existing_knowledge, last_user_triplets, validations_done>>

\* analyze_with_cypher, lines 113-132: the generated query is run on the store.
AnalyzeQuery(p) ==
    /\ CanStart(p)
    /\ BeginCall(p, "analyze", {})
    /\ writes' = [writes EXCEPT ![p] = <<>>]
    /\ gpc' = [gpc EXCEPT ![p] = "metric_connectivity"]
    /\ UNCHANGED <<workers, graph, last_user_triplets, validations_done>>

\* calculate_hexagonal_metrics, the connectivity query (lines 58-59).
MetricConnectivity(p) ==
    /\ p \in workers
    /\ gpc[p] = "metric_connectivity"
    /\ gpc' = [gpc EXCEPT ![p] = "metric_depth"]
    /\ UNCHANGED <<workers, graph, calls, op, context, extracted, failed_docs, pending,
                   writes, existing_knowledge, user_triplets, last_user_triplets,
                   validations_done>>

\* calculate_hexagonal_metrics, the depth query (lines 74-75).
MetricDepth(p) ==
    /\ p \in workers
    /\ gpc[p] = "metric_depth"
    /\ gpc' = [gpc EXCEPT ![p] = "report"]
    /\ UNCHANGED <<workers, graph, calls, op, context, extracted, failed_docs, pending,
                   writes, existing_knowledge, user_triplets, last_user_triplets,
                   validations_done>>

\* The handler returns its report (lines 151-155, 199-204).
ReturnReport(p) ==
    /\ p \in workers
    /\ gpc[p] = "report"
    /\ EndCall(p)
    /\ IF op[p] = "validate"
       THEN /\ last_user_triplets' = user_triplets[p]
            /\ validations_done' = validations_done + 1
       ELSE UNCHANGED <<last_user_triplets, validations_done>>
    /\ UNCHANGED <<workers, graph, calls>>

\* The steps that read the store, and the positions of a validation run
\* between its clear and the completion of its evidence sync.
ReadPositions == {"read_knowledge", "metric_connectivity", "metric_depth"}

SyncPositions == {"sync_extract", "sync_upsert"}

-----------------------------------------------------------------------------
(***************************************************************************)
(* KnowledgeGraphManager.calculate_hexagonal_metrics: the six metrics of   *)
(* one call, computed in order inside one try block.  A query outcome is   *)
(* the rows it gives, or `raised' when graph_store.query raises.           *)
(***************************************************************************)

MetricNames == {"connectivity", "factuality", "depth", "originality", "density", "insight"}

\* The metrics an LLM judges.
JudgedMetrics == {"factuality", "originality", "insight"}

\* conn_res: the query raises, gives no row, or gives one row of counts
\* (count(r) over undirected matches, count(distinct n)).
ConnCounts == {<<0, 0>>, <<2, 2>>, <<4, 3>>, <<5, 3>>, <<30, 2>>}

QueryRaises == [raised |-> TRUE, rows |-> <<>>]

QueryRows(rows) == [raised |-> FALSE, rows |-> rows]

ConnResults ==
    {QueryRaises, QueryRows(<<>>)}
    \cup {QueryRows(<<[connections |-> cn[1], nodes |-> cn[2]]>>) : cn \in ConnCounts}

\* depth_res: the query raises, gives no row, or gives one row with a count.
PathCounts == {0, 3, 25}

DepthResults ==
    {QueryRaises, QueryRows(<<>>)} \cup {QueryRows(<<[paths |-> n]>>) : n \in PathCounts}

\* str(self.llm.complete(prompt)): a number as text, the empty (or blank)
\* text, any other text, or the call raises.
JudgeNumbers == {-5, 50, 150}

JudgeResponses ==
    {[kind |-> "number", value |-> n] : n \in JudgeNumbers}
    \cup {[kind |-> "empty", value |-> 0],
          [kind |-> "text", value |-> 0],
          [kind |-> "raise", value |-> 0]}

\* The rows of `results': a dict row of a query result, with its values
\* (one relation between the entities it names), or a row that is no dict:
\* validate_user_article passes the list extractor.acall gave, one node for
\* the draft, which carries the triples extracted from it.  `relations' and
\* `entities' are what the row stands for; `values' is what r.values()
\* gives for a dict.
RowAB == [kind |-> "dict", values |-> {"Kang", "Court"},
          relations |-> 1, entities |-> {"Kang", "Court"}]
RowBC == [kind |-> "dict", values |-> {"Court", "Seoul"},
          relations |-> 1, entities |-> {"Court", "Seoul"}]
RowSelf == [kind |-> "dict", values |-> {"Kang"},
            relations |-> 1, entities |-> {"Kang"}]
RowDraft == [kind |-> "other", values |-> {},
             relations |-> 2, entities |-> {"Kang", "Court", "Seoul"}]

ResultLists ==
    {<<>>, <<RowAB>>, <<RowAB, RowBC>>, <<RowAB, RowBC, RowAB, RowBC>>, <<RowDraft>>,
     <<RowSelf, RowSelf, RowSelf, RowSelf, RowSelf, RowSelf>>}

IntOfJudgeDefault(answer) ==
    CASE answer.kind = "number" -> [raised |-> FALSE, value |-> answer.value]
      [] answer.kind = "empty"  -> [raised |-> FALSE, value |-> 50]
      [] answer.kind = "text"   -> [raised |-> FALSE, value |-> 50]
      [] OTHER                    -> [raised |-> TRUE, value |-> 0]

\* int(str(response).strip() or 0): the number, 0 for an empty text;
\* int() raises ValueError on any other text, and a raising LLM call raises.
IntOfJudge(answer) ==
    CASE answer.kind = "number" -> [raised |-> FALSE, value |-> answer.value]
      [] answer.kind = "empty"  -> [raised |-> FALSE, value |-> 0]
      [] OTHER                    -> [raised |-> TRUE, value |-> 0]

\* Lines 58-63: min(100, int(avg_conn * 10)) when there is a row with
\* nodes > 0; the metric keeps its 0 otherwise.
ConnectivityOf(res) ==
    IF res.raised THEN [raised |-> TRUE, value |-> 0]
    ELSE IF res.rows # <<>> /\ res.rows[1].nodes > 0
         THEN [raised |-> FALSE,
               value  |-> Min(100, (res.rows[1].connections * 10) \div res.rows[1].nodes)]
         ELSE [raised |-> FALSE, value |-> 0]

\* Lines 74-76: min(100, int(paths * 5)), 0 when there is no row.
DepthOf(res) ==
    IF res.raised THEN [raised |-> TRUE, value |-> 0]
    ELSE IF res.rows # <<>>
         THEN [raised |-> FALSE, value |-> Min(100, res.rows[1].paths * 5)]
         ELSE [raised |-> FALSE, value |-> 0]

\* The values of the dict rows of `results' (node_ids).
RECURSIVE NodeIds(_)
NodeIds(rows) ==
    IF rows = <<>> THEN {}
    ELSE (IF rows[1].kind = "dict" THEN rows[1].values ELSE {}) \cup NodeIds(Tail(rows))

\* Lines 87-93: min(100, int((rel_count / max(1, len(node_ids))) * 20)) for
\* a non-empty list; the metric keeps its 0 otherwise.
DensityOf(rows) ==
    IF rows = <<>> THEN [raised |-> FALSE, value |-> 0]
    ELSE LET nodes == IF Cardinality(NodeIds(rows)) >= 1 THEN Cardinality(NodeIds(rows)) ELSE 1
         IN  [raised |-> FALSE, value |-> Min(100, (Len(rows) * 20) \div nodes)]

\* The six computations in the order of the try block.
MetricOrder == <<"connectivity", "factuality", "depth", "originality", "density", "insight">>

\* What the computation of one metric gives, taken alone.
MetricAlone(name, cr, dr, jr, rows) ==
    CASE name = "connectivity" -> ConnectivityOf(cr)
      [] name = "depth"        -> DepthOf(dr)
      [] name = "density"      -> DensityOf(rows)
      [] OTHER                 -> IntOfJudge(jr[name])

\* The try block from its n-th statement on: a statement that raises ends
\* the block, and the metrics not yet assigned keep their initial 0.
RECURSIVE RunFrom(_, _, _, _, _, _)
RunFrom(n, m, cr, dr, jr, rows) ==
    IF n > Len(MetricOrder) THEN [metrics |-> m, caught |-> FALSE]
    ELSE LET got == MetricAlone(MetricOrder[n], cr, dr, jr, rows)
         IN  IF got.raised THEN [metrics |-> m, caught |-> TRUE]
             ELSE RunFrom(n + 1, [m EXCEPT ![MetricOrder[n]] = got.value], cr, dr, jr, rows)

\* The dict of lines 46-53.
InitialMetrics == [name \in MetricNames |-> 0]

MetricsInit ==
    /\ mpc = "idle"
    /\ conn_res = QueryRows(<<>>)
    /\ depth_res = QueryRows(<<>>)
    /\ judge = [name \in JudgedMetrics |-> [kind |-> "empty", value |-> 0]]
    /\ metric_results = <<>>
    /\ metrics = InitialMetrics
    /\ caught = FALSE

\* calculate_hexagonal_metrics(query_str, results)
CalculateHexagonalMetrics ==
    /\ mpc = "idle"
    /\ \E cr \in ConnResults, dr \in DepthResults,
          jr \in [JudgedMetrics -> JudgeResponses], rows \in ResultLists :
          LET run == RunFrom(1, InitialMetrics, cr, dr, jr, rows)
          IN  /\ conn_res' = cr
              /\ depth_res' = dr
              /\ judge' = jr
              /\ metric_results' = rows
              /\ metrics' = run.metrics
              /\ caught' = run.caught
    /\ mpc' = "done"

-----------------------------------------------------------------------------
(***************************************************************************)
(* QueryDecomposer.decompose_article (src/app/rag/decomposer.py).  An LLM  *)
(* response is modelled by what the parsing of lines 46-55 sees in it.     *)
(***************************************************************************)

\* Bounds of the model.
MaxFacets == 6

\* article_content[:50]
FacetQueryLen == 50

\* Articles: shorter and longer than the fallback prefix.
ShortArticle == <<3, 4, 5>>
LongArticle == [i \in 1..(FacetQueryLen + 2) |-> IF i <= FacetQueryLen THEN 6 ELSE 7]

Articles == {ShortArticle, LongArticle}

\* The dimension literal of the fallback facet (line 55).
CoreTopic == "core_topic"

\* The defaults of ArticleAnalysisResult (lines 19-20).
SummaryDefault == "summary_failed"

\* An entry of the "facets" list of the response: a dict with both fields
\* of SearchFacet, or anything SearchFacet(**f) rejects.
GoodFacet(i) == [ok |-> TRUE, facet_query |-> <<i>>, dimension |-> "dimension"]
BadFacet == [ok |-> FALSE, facet_query |-> <<>>, dimension |-> ""]

\* Lists of n entries, each one well-formed or malformed.
FacetEntries(n) ==
    {[i \in 1..n |-> IF good[i] THEN GoodFacet(i) ELSE BadFacet] : good \in [1..n -> BOOLEAN]}

\* str(response): a text without any {...}; a text whose {...} is no JSON;
\* a JSON object without the key "facets"; a JSON object whose "facets" is
\* no list; a JSON object with a list of facet entries.  "raise" is
\* self.llm.acomplete raising.
LlmTexts ==
    {[kind |-> kd, facets |-> <<>>] :
        kd \in {"no_object", "bad_json", "no_facets_key", "facets_not_list", "raise"}}
    \cup {[kind |-> "facets", facets |-> l] :
            l \in UNION {FacetEntries(n) : n \in 0..MaxFacets}}

\* SearchFacet(facet_query=..., dimension=...)
SearchFacet(query, dimension) == [facet_query |-> query, dimension |-> dimension]

\* ArticleAnalysisResult(facets=...)
ArticleAnalysisResult(facets) ==
    [facets |-> facets, core_summary |-> SummaryDefault, primary_entities |-> <<>>]

FallbackWholeArticle(article) == ArticleAnalysisResult(<<SearchFacet(article, CoreTopic)>>)

\* Line 55: the result of the except clause.
Fallback(article) ==
    ArticleAnalysisResult(
        <<SearchFacet(SubSeq(article, 1, Min(FacetQueryLen, Len(article))), CoreTopic)>>)

\* Lines 46-52: whether the try block raises on the text.
ParseRaises(txt) ==
    \/ txt.kind \in {"no_object", "bad_json", "facets_not_list"}
    \/ txt.kind = "facets" /\ \E i \in 1..Len(txt.facets) : ~txt.facets[i].ok

\* Line 50: data.get('facets', []) turned into SearchFacet objects.
ParsedResult(txt) ==
    ArticleAnalysisResult(
        [i \in 1..Len(txt.facets) |->
            SearchFacet(txt.facets[i].facet_query, txt.facets[i].dimension)])

DecomposerInit ==
    /\ dpc = "idle"
    /\ article_content = <<>>
    /\ llm_text = [kind |-> "no_object", facets |-> <<>>]
    /\ acomplete_calls = 0
    /\ analysis = ArticleAnalysisResult(<<>>)

\* decompose_article(article_content) when self.llm.acomplete returns.
DecomposeArticle ==
    /\ dpc = "idle"
    /\ \E article \in Articles, txt \in LlmTexts :
          /\ txt.kind # "raise"
          /\ article_content' = article
          /\ llm_text' = txt
          /\ analysis' = IF ParseRaises(txt) THEN Fallback(article) ELSE ParsedResult(txt)
    /\ acomplete_calls' = acomplete_calls + 1
    /\ dpc' = "done"

\* decompose_article(article_content) when self.llm.acomplete raises
\* (line 40, outside the try block): the exception leaves the method.
DecomposeArticleRaises ==
    /\ dpc = "idle"
    /\ \E article \in Articles, txt \in LlmTexts :
          /\ txt.kind = "raise"
          /\ article_content' = article
          /\ llm_text' = txt
    /\ acomplete_calls' = acomplete_calls + 1
    /\ dpc' = "raised"
    /\ UNCHANGED analysis

-----------------------------------------------------------------------------
(***************************************************************************)
(* KnowledgeGraphManager.analyze_with_cypher, the whole call.  A text is   *)
(* a sequence of pieces; it includes a string when that string is one of   *)
(* its pieces.  A Python value that can be of several types carries its    *)
(* type: a str with its text, or a dict with its keys.                     *)
(***************************************************************************)

\* The Cypher text the LLM generated, after the cleaning of line 128.
Queries == {"MATCH (a)-[r]->(b) RETURN a, b", "MATCH (a RETURN a"}

\* str(e) of what graph_store.query can raise: a syntax error of the
\* server, which quotes the statement, or a failure of the connection.
ErrorMessages(query) == {<<"Invalid input in statement: ", query>>, <<"Connection refused">>}

\* graph_store.query(cypher_query): raises, or gives rows (no row included).
StoreQueryOutcomes(query) ==
    {[raised |-> TRUE, rows |-> <<>>, message |-> m] : m \in ErrorMessages(query)}
    \cup {[raised |-> FALSE, rows |-> rows, message |-> <<>>] : rows \in ResultLists}

\* self.llm.complete(interpret_prompt): an answer, or the call raises.
InterpretOutcomes ==
    {[raised |-> FALSE, text |-> <<"report on the rows">>],
     [raised |-> TRUE, text |-> <<"Request timed out">>]}

\* The three judges give the same kind of response.
JudgeProfiles == {[name \in JudgedMetrics |-> r] : r \in JudgeResponses}

\* The answer of line 138.
NoResultAnswer == <<"no matching result; statistics of the whole graph follow">>

\* The prefix of the string of line 157.
ErrorPrefix == "error: "

\* f"<prefix>{str(e)}"
ErrorString(message) == <<ErrorPrefix>> \o message

StrValue(text) == [type |-> "str", text |-> text, dict |-> [cypher |-> ""]]

DictValue(dict) == [type |-> "dict", text |-> <<>>, dict |-> dict]

\* A branch that asks for an interpretation whatever the rows.
AlwaysInterpret(rows) == TRUE

\* Line 137: `if not results' takes the else branch for a non-empty list.
NeedsInterpretation(rows) == rows # <<>>

\* The prompts calculate_hexagonal_metrics gives to self.llm.complete: one
\* per judged metric, up to the statement that raises.
RECURSIVE JudgePrompts(_, _, _, _, _)
JudgePrompts(n, cr, dr, jr, rows) ==
    IF n > Len(MetricOrder) THEN <<>>
    ELSE LET name == MetricOrder[n]
             here == IF name \in JudgedMetrics THEN <<name>> ELSE <<>>
         IN  IF MetricAlone(name, cr, dr, jr, rows).raised THEN here
             ELSE here \o JudgePrompts(n + 1, cr, dr, jr, rows)

\* Lines 131-157 once the query returned `rows': the value returned.
AnalyzeReturn(query, rows, run, interp) ==
    IF NeedsInterpretation(rows) /\ interp.raised
    THEN StrValue(ErrorString(interp.text))
    ELSE DictValue([answer  |-> IF NeedsInterpretation(rows)
                                THEN interp.text ELSE NoResultAnswer,
                    metrics |-> run.metrics,
                    cypher  |-> query])

AnalyzeInit ==
    /\ apc = "idle"
    /\ cypher_query = ""
    /\ query_outcome = [raised |-> FALSE, rows |-> <<>>, message |-> <<>>]
    /\ llm_prompts = <<>>
    /\ analysis_report = StrValue(<<>>)

\* analyze_with_cypher(query_str) when the schema and the generated query
\* were obtained: the query runs, and when it returns the metrics are
\* computed and, for a non-empty result, the interpretation is asked for.
AnalyzeWithCypher ==
    /\ apc = "idle"
    /\ mpc = "idle"
    /\ \E query \in Queries :
         \E out \in StoreQueryOutcomes(query), cr \in ConnResults, dr \in DepthResults,
            jr \in JudgeProfiles, interp \in InterpretOutcomes :
            LET run == RunFrom(1, InitialMetrics, cr, dr, jr, out.rows)
            IN  /\ cypher_query' = query
                /\ query_outcome' = out
                /\ IF out.raised
                   THEN /\ llm_prompts' = <<"cypher">>
                        /\ analysis_report' = StrValue(ErrorString(out.message))
                        /\ UNCHANGED metricsVars
                   ELSE /\ llm_prompts' = <<"cypher">>
                                           \o JudgePrompts(1, cr, dr, jr, out.rows)
                                           \o (IF NeedsInterpretation(out.rows)
                                               THEN <<"interpret">> ELSE <<>>)
                        /\ analysis_report' = AnalyzeReturn(query, out.rows, run, interp)
                        /\ conn_res' = cr
                        /\ depth_res' = dr
                        /\ judge' = jr
                        /\ metric_results' = out.rows
                        /\ metrics' = run.metrics
                        /\ caught' = run.caught
                        /\ mpc' = "done"
    /\ apc' = "returned"

\* analyze_with_cypher(query_str) when aget_schema_str (line 116) or the
\* completion that writes the query (line 127) raises: both stand before
\* the try block, the exception leaves the method.
AnalyzeWithCypherRaises ==
    /\ apc = "idle"
    /\ \E asked \in BOOLEAN : llm_prompts' = IF asked THEN <<"cypher">> ELSE <<>>
    /\ apc' = "raised"
    /\ UNCHANGED <<cypher_query, query_outcome, analysis_report, metricsVars>>

-----------------------------------------------------------------------------
(***************************************************************************)
(* NewsRAGSolver.recommend_similar_articles, lines 85-102: one retrieval   *)
(* per facet, gathered, and the merge of their source nodes.               *)
(***************************************************************************)

\* Bound of the model: the number of facets of the analysed article.
MaxSearchFacets == 3

NodeWithScore(id, score) == [node_id |-> id, score |-> score]

\* What the retrieval of one facet can find: the same node can come back
\* for several facets, with a score of its own each time.
SourceNodeLists ==
    {<<>>,
     <<NodeWithScore("n1", 9)>>,
     <<NodeWithScore("n2", 8), NodeWithScore("n1", 7)>>,
     <<NodeWithScore("n3", 6), NodeWithScore("n2", 5)>>}

\* A gather whose list follows the order of completion.
GatherByCompletion(found, order) ==
    [i \in 1..Len(found) |-> [source_nodes |-> found[order[i]]]]

\* asyncio.gather(*search_tasks): the results in the order of the
\* awaitables, whatever the order in which they completed.
Gather(found, order) == [i \in 1..Len(found) |-> [source_nodes |-> found[i]]]

\* Lines 97-100 for the nodes of one result.
RECURSIVE MergeNodes(_, _)
MergeNodes(unique, nodes) ==
    IF nodes = <<>> THEN unique
    ELSE LET node == Head(nodes)
         IN  MergeNodes(IF \E i \in 1..Len(unique) : unique[i].node_id = node.node_id
                        THEN unique
                        ELSE Append(unique, node),
                        Tail(nodes))

\* Lines 93-100: the dict unique_nodes, in insertion order.
RECURSIVE MergeResults(_, _)
MergeResults(unique, gathered) ==
    IF gathered = <<>> THEN unique
    ELSE MergeResults(MergeNodes(unique, Head(gathered).source_nodes), Tail(gathered))

RecommendInit ==
    /\ rpc = "idle"
    /\ facet_hits = <<>>
    /\ search_tasks = <<>>
    /\ completion_order = <<>>
    /\ search_results = <<>>
    /\ unique_nodes = <<>>
    /\ final_nodes = <<>>

\* Lines 86-90: one query per facet is created and all are handed to gather.
StartSearches ==
    /\ rpc = "idle"
    /\ \E n \in 0..MaxSearchFacets :
         \E found \in [1..n -> SourceNodeLists] :
            /\ facet_hits' = found
            /\ search_tasks' = [i \in 1..n |-> "pending"]
    /\ rpc' = "searching"
    /\ UNCHANGED <<completion_order, search_results, unique_nodes, final_nodes>>

\* One of the running queries returns its response.
QueryCompletes ==
    /\ rpc = "searching"
    /\ \E i \in 1..Len(search_tasks) :
          /\ search_tasks[i] = "pending"
          /\ search_tasks' = [search_tasks EXCEPT ![i] = "done"]
          /\ completion_order' = Append(completion_order, i)
    /\ UNCHANGED <<rpc, facet_hits, search_results, unique_nodes, final_nodes>>

\* One of the running queries raises: gather gives the exception to the
\* await of line 90, which no try block encloses.
QueryFails ==
    /\ rpc = "searching"
    /\ \E i \in 1..Len(search_tasks) :
          /\ search_tasks[i] = "pending"
          /\ search_tasks' = [search_tasks EXCEPT ![i] = "raised"]
    /\ rpc' = "raised"
    /\ UNCHANGED <<facet_hits, completion_order, search_results, unique_nodes, final_nodes>>

\* Lines 90-102: gather returns when every query has returned, and the
\* results are merged.
GatherAndMerge ==
    /\ rpc = "searching"
    /\ \A i \in 1..Len(search_tasks) : search_tasks[i] = "done"
    /\ LET gathered == Gather(facet_hits, completion_order)
           unique   == MergeResults(<<>>, gathered)
       IN  /\ search_results' = gathered
           /\ unique_nodes' = unique
           /\ final_nodes' = unique
    /\ rpc' = "merged"
    /\ UNCHANGED <<facet_hits, search_tasks, completion_order>>

-----------------------------------------------------------------------------
(***************************************************************************)
(* NewsAppGraph (src/app/rag/graph_flow.py): the compiled workflow.  The   *)
(* AgentState is a dict: a function on the keys it holds; the value a node *)
(* returns is merged into it.                                              *)
(***************************************************************************)

\* state.update(returned): the keys returned replace or extend the state.
StateUpdate(state, returned) == returned @@ state

\* What lc_solver.solve returns.
RagResults ==
    {[analysis |-> "rag analysis 1", docs |-> <<"doc1">>],
     [analysis |-> "rag analysis 2", docs |-> <<"doc1", "doc2">>]}

\* What lc_solver.pgi_reasoning returns.
GraphResults == {[graph_analysis |-> "graph analysis 1"],
                 [graph_analysis |-> "graph analysis 2"]}

\* The default of state.get('graph_reasoning', 'N/A').
NotAvailable == "N/A"

\* A node_analyze that switches the graph step off.
NodeAnalyzeNoGraph(facets) == [facets |-> facets, need_graph |-> FALSE]

\* node_analyze, line 53: the value returned for the facets found.
node_analyze(facets) == [facets |-> facets, need_graph |-> TRUE]

\* node_retrieve_rag, lines 59-62.
node_retrieve_rag(result) ==
    [rag_analysis |-> result.analysis, retrieved_docs |-> result.docs]

\* node_reason_graph, line 72.
node_reason_graph(result) == [graph_reasoning |-> result.graph_analysis]

\* node_synthesize, lines 77-78: the report is the two analyses under
\* their headings.
node_synthesize(state) ==
    [final_report |->
        <<"[RAG]", state.rag_analysis,
          "[graph]", IF "graph_reasoning" \in DOMAIN state
                     THEN state.graph_reasoning ELSE NotAvailable>>]

\* should_use_graph: state.get("need_graph") is None for a missing key.
should_use_graph(state) ==
    IF "need_graph" \in DOMAIN state /\ state.need_graph THEN "yes" ELSE "no"

\* The mapping of the conditional edge, lines 35-42.
BranchTarget(answer) == IF answer = "yes" THEN "reason_graph" ELSE "synthesize"

FlowInit ==
    /\ wpc = "idle"
    /\ agent_state = [article_content |-> <<>>]
    /\ executed = <<>>

\* run(article): the workflow is invoked and enters at analyze_article.
Run ==
    /\ wpc = "idle"
    /\ \E article \in Articles : agent_state' = [article_content |-> article]
    /\ wpc' = "analyze_article"
    /\ UNCHANGED executed

\* The node analyze_article and its edge to retrieve_rag.
NodeAnalyze ==
    /\ wpc = "analyze_article"
    /\ \E txt \in LlmTexts :
          /\ txt.kind # "raise"
          /\ LET found == IF ParseRaises(txt)
                          THEN Fallback(agent_state.article_content)
                          ELSE ParsedResult(txt)
             IN  agent_state' = StateUpdate(agent_state, node_analyze(found.facets))
    /\ executed' = Append(executed, "analyze_article")
    /\ wpc' = "retrieve_rag"

\* The node retrieve_rag and the conditional edge that follows it.
NodeRetrieveRag ==
    /\ wpc = "retrieve_rag"
    /\ \E result \in RagResults :
          LET after == StateUpdate(agent_state, node_retrieve_rag(result))
          IN  /\ agent_state' = after
              /\ wpc' = BranchTarget(should_use_graph(after))
    /\ executed' = Append(executed, "retrieve_rag")

\* The node reason_graph and its edge to synthesize.
NodeReasonGraph ==
    /\ wpc = "reason_graph"
    /\ \E result \in GraphResults :
          agent_state' = StateUpdate(agent_state, node_reason_graph(result))
    /\ executed' = Append(executed, "reason_graph")
    /\ wpc' = "synthesize"

\* The node synthesize and its edge to END.
NodeSynthesize ==
    /\ wpc = "synthesize"
    /\ agent_state' = StateUpdate(agent_state, node_synthesize(agent_state))
    /\ executed' = Append(executed, "synthesize")
    /\ wpc' = "END"

\* The call a node awaits raises (decompose_article, solve, pgi_reasoning):
\* no node catches it, and ainvoke raises out of run.
NodeRaises ==
    /\ wpc \in {"analyze_article", "retrieve_rag", "reason_graph"}
    /\ executed' = Append(executed, wpc)
    /\ wpc' = "raised"
    /\ UNCHANGED agent_state

-----------------------------------------------------------------------------
vars == <<fusionVars, verifierVars, graphVars, metricsVars, decomposerVars,
          analyzeVars, recommendVars, flowVars>>

\* The variables of all components but one.
laterVars == <<analyzeVars, recommendVars, flowVars>>
earlierVars == <<fusionVars, verifierVars, graphVars, decomposerVars>>
notAnalyze == <<earlierVars, recommendVars, flowVars>>
notRecommend == <<earlierVars, metricsVars, analyzeVars, flowVars>>
notFlow == <<earlierVars, metricsVars, analyzeVars, recommendVars>>
notFusion == <<verifierVars, graphVars, metricsVars, decomposerVars, laterVars>>
notVerifier == <<fusionVars, graphVars, metricsVars, decomposerVars, laterVars>>
notGraph == <<fusionVars, verifierVars, metricsVars, decomposerVars, laterVars>>
notMetrics == <<fusionVars, verifierVars, graphVars, decomposerVars, laterVars>>
notDecomposer == <<fusionVars, verifierVars, graphVars, metricsVars, laterVars>>

\* The initial state of the components a specification leaves alone.
FusionIdle == FusionInit /\ k = 0
GraphIdle == GraphInit /\ workers = {} /\ graph = {}
LaterInit == AnalyzeInit /\ RecommendInit /\ FlowInit
EarlierIdle == FusionIdle /\ VerifierInit /\ GraphIdle /\ DecomposerInit

\* The retriever alone.
InitFusion ==
    /\ FusionInit /\ VerifierInit /\ GraphIdle
    /\ MetricsInit /\ DecomposerInit /\ LaterInit

NextFusion == GetRelevantDocuments /\ UNCHANGED notFusion

SpecFusion == InitFusion /\ [][NextFusion]_vars

\* The evaluator alone: the retriever is constructed with k = 0 and never
\* called.
InitVerifier ==
    /\ FusionIdle /\ VerifierInit /\ GraphIdle
    /\ MetricsInit /\ DecomposerInit /\ LaterInit

NextVerifier ==
    \/ EvaluateDecompose /\ UNCHANGED notVerifier
    \/ EvaluateVerifyNext /\ UNCHANGED notVerifier
    \/ EvaluateReturn /\ UNCHANGED notVerifier
    \/ VerifyClaimCall /\ UNCHANGED notVerifier

SpecVerifier == InitVerifier /\ [][NextVerifier]_vars

\* The graph manager.
NextGraph ==
    \/ \E p \in Procs : ValidateClear(p) /\ UNCHANGED notGraph
    \/ \E p \in Procs : IngestStart(p) /\ UNCHANGED notGraph
    \/ \E p \in Procs : SyncExtract(p) /\ UNCHANGED notGraph
    \/ \E p \in Procs : SyncExtractRaises(p) /\ UNCHANGED notGraph
    \/ \E p \in Procs : SyncRaise(p) /\ UNCHANGED notGraph
    \/ \E p \in Procs : SyncUpsert(p) /\ UNCHANGED notGraph
    \/ \E p \in Procs : SyncReturn(p) /\ UNCHANGED notGraph
    \/ \E p \in Procs : ReadKnowledge(p) /\ UNCHANGED notGraph
    \/ \E p \in Procs : ExtractDraft(p) /\ UNCHANGED notGraph
    \/ \E p \in Procs : AnalyzeQuery(p) /\ UNCHANGED notGraph
    \/ \E p \in Procs : MetricConnectivity(p) /\ UNCHANGED notGraph
    \/ \E p \in Procs : MetricDepth(p) /\ UNCHANGED notGraph
    \/ \E p \in Procs : ReturnReport(p) /\ UNCHANGED notGraph

\* One worker: handler calls run one after the other.
InitGraphSeq ==
    /\ FusionIdle /\ VerifierInit /\ GraphInit /\ workers = {1}
    /\ MetricsInit /\ DecomposerInit /\ LaterInit

SpecGraphSeq == InitGraphSeq /\ [][NextGraph]_vars

\* Two workers on the same store: their calls interleave statement by statement.
InitGraph ==
    /\ FusionIdle /\ VerifierInit /\ GraphInit /\ workers = Procs
    /\ MetricsInit /\ DecomposerInit /\ LaterInit

SpecGraph == InitGraph /\ [][NextGraph]_vars

\* calculate_hexagonal_metrics alone.
InitMetrics ==
    /\ FusionIdle /\ VerifierInit /\ GraphIdle
    /\ MetricsInit /\ DecomposerInit /\ LaterInit

NextMetrics == CalculateHexagonalMetrics /\ UNCHANGED notMetrics

SpecMetrics == InitMetrics /\ [][NextMetrics]_vars

\* decompose_article alone.
InitDecomposer ==
    /\ FusionIdle /\ VerifierInit /\ GraphIdle
    /\ MetricsInit /\ DecomposerInit /\ LaterInit

NextDecomposer ==
    \/ DecomposeArticle /\ UNCHANGED notDecomposer
    \/ DecomposeArticleRaises /\ UNCHANGED notDecomposer

SpecDecomposer == InitDecomposer /\ [][NextDecomposer]_vars

\* analyze_with_cypher alone, with the metrics call it makes.
InitAnalyze == EarlierIdle /\ MetricsInit /\ LaterInit

NextAnalyze ==
    \/ AnalyzeWithCypher /\ UNCHANGED notAnalyze
    \/ AnalyzeWithCypherRaises /\ UNCHANGED notAnalyze

SpecAnalyze == InitAnalyze /\ [][NextAnalyze]_vars

\* The searches of recommend_similar_articles alone.
InitRecommend == EarlierIdle /\ MetricsInit /\ LaterInit

NextRecommend ==
    \/ StartSearches /\ UNCHANGED notRecommend
    \/ QueryCompletes /\ UNCHANGED notRecommend
    \/ QueryFails /\ UNCHANGED notRecommend
    \/ GatherAndMerge /\ UNCHANGED notRecommend

SpecRecommend == InitRecommend /\ [][NextRecommend]_vars

\* The workflow alone.
InitFlow == EarlierIdle /\ MetricsInit /\ LaterInit

NextFlow ==
    \/ Run /\ UNCHANGED notFlow
    \/ NodeAnalyze /\ UNCHANGED notFlow
    \/ NodeRetrieveRag /\ UNCHANGED notFlow
    \/ NodeReasonGraph /\ UNCHANGED notFlow
    \/ NodeSynthesize /\ UNCHANGED notFlow
    \/ NodeRaises /\ UNCHANGED notFlow

SpecFlow == InitFlow /\ [][NextFlow]_vars

-----------------------------------------------------------------------------
(***************************************************************************)
(* Properties of NewsHybridRetriever (SpecFusion).                         *)
(***************************************************************************)

\* The ranks (zero-based) at which identity `id' occurs in a hit list, as
\* the scores 1/(rank + c) those ranks give.
Contributions(docs, id) ==
    {RrfScore(i - 1) : i \in {j \in 1..Len(docs) : doc_id(docs[j]) = id}}

\* The sums of one contribution from each of the two lists that holds `id'.
RrfSums(id) ==
    LET sp == IF Contributions(sparse_docs, id) = {} THEN {0}
              ELSE Contributions(sparse_docs, id)
        dn == IF Contributions(dense_docs, id) = {} THEN {0}
              ELSE Contributions(dense_docs, id)
    IN  {a + b : a \in sp, b \in dn}

\* The accumulated score of the identity of `doc'.
ScoreOf(doc) == doc_scores[KeyIndex(doc_scores, doc_id(doc))].score

\* C1: the accumulated score of every fused identity is the sum, over the
\* lists that contain it, of 1/(rank + c) at its position in that list.
C1_ScoreIsRrfSum ==
    fpc = "done" =>
        \A i \in 1..Len(doc_scores) : doc_scores[i].score \in RrfSums(doc_scores[i].id)

\* C2: an identity key that occurs in both hit lists has exactly one fused
\* entry, which carries the sum of its two contributions, and no identity
\* key occurs twice in the returned list.
C2_DedupSummed ==
    fpc = "done" =>
        /\ \A i, j \in 1..Len(fused) : i # j => doc_id(fused[i]) # doc_id(fused[j])
        /\ \A s \in Range(sparse_docs), d \in Range(dense_docs) :
              doc_id(s) = doc_id(d) =>
                  /\ Cardinality({i \in 1..Len(doc_scores) :
                                     doc_scores[i].id = doc_id(s)}) = 1
                  /\ ScoreOf(s) \in {a + b : a \in Contributions(sparse_docs, doc_id(s)),
                                             b \in Contributions(dense_docs, doc_id(s))}

\* C3: the returned list has at most k documents, min(k, number of fused
\* identities) of them, in non-increasing order of accumulated score, and
\* no identity left out has a higher score than one returned.
C3_TopKByScore ==
    fpc = "done" =>
        /\ Len(fused) <= k
        /\ Len(fused) = Min(k, Len(doc_scores))
        /\ \A i \in 1..(Len(fused) - 1) : ScoreOf(fused[i]) >= ScoreOf(fused[i + 1])
        /\ \A e \in Range(doc_scores) :
              (\A i \in 1..Len(fused) : doc_id(fused[i]) # e.id) =>
                  \A i \in 1..Len(fused) : ScoreOf(fused[i]) >= e.score

\* The scenario sparse [A, B, C], dense [B, D, A], c = 60, k = 2: B is
\* returned above A.
C3_ScenarioReached ==
    /\ fpc = "done"
    /\ k = 2
    /\ sparse_docs = <<DocA1, DocB, DocC>>
    /\ dense_docs = <<DocB, DocP, DocA1>>
    /\ fused = <<DocB, DocA1>>
    /\ Len(doc_scores) = 4

(***************************************************************************)
(* Properties of RLMEvaluator (SpecVerifier).                              *)
(***************************************************************************)

\* C4: verify_claim at a depth >= max_depth returns verified = false with
\* confidence 0.5 and reason 'Max depth reached', and neither a sub-agent
\* nor an LLM call is made.
C4_MaxDepthTerminal ==
    (vpc = "vc_done" /\ vc_depth >= max_depth) =>
        /\ vc_result.verified = FALSE
        /\ vc_result.confidence = 5
        /\ vc_result.reason = "Max depth reached"
        /\ agent_runs = <<>>
        /\ llm_calls = 0

C4_CalledAtBound ==
    /\ vpc = "vc_done"
    /\ vc_depth = max_depth
    /\ vc_result.reason = "Max depth reached"

\* C5: every sub-agent started while verifying a claim is given a depth
\* counter one above the depth of the verify_claim call that started it,
\* that call has passed the max_depth check, and no sub-agent runs deeper
\* than max_depth.
C5_DepthPassedAndBounded ==
    \A i \in 1..Len(agent_runs) :
        /\ agent_runs[i].parent_depth < max_depth
        /\ agent_runs[i].depth # NoDepth
        /\ agent_runs[i].depth = agent_runs[i].parent_depth + 1
        /\ agent_runs[i].depth <= max_depth

(***************************************************************************)
(* Properties of KnowledgeGraphManager (SpecGraphSeq: one worker;          *)
(* SpecGraph: two workers).                                                *)
(***************************************************************************)

\* The positions of validate_user_article after existing_knowledge is read.
PastRead == {"draft_extract", "metric_connectivity", "metric_depth", "report"}

\* C6: the first graph write of a validation run is the clear, every write
\* up to the read of existing_knowledge is an upsert of its own evidence,
\* and existing_knowledge holds only triples extracted from the run's
\* context_nodes.
C6_KnowledgeFromCurrentEvidence ==
    \A p \in workers :
        op[p] = "validate" =>
            /\ writes[p] # <<>> /\ writes[p][1] = ClearWrite
            /\ gpc[p] \in SyncPositions \cup {"read_knowledge"} =>
                  \A i \in 2..Len(writes[p]) :
                      /\ writes[p][i].op = "upsert"
                      /\ writes[p][i].triple \in extracted[p]
            /\ gpc[p] \in PastRead => existing_knowledge[p] \subseteq WritableOf(extracted[p])

\* A second validation run has read its evidence {T2}; nothing of the
\* earlier run is in it.
C6_SecondRunRead ==
    \E p \in workers :
        /\ op[p] = "validate"
        /\ gpc[p] = "draft_extract"
        /\ validations_done = 1
        /\ extracted[p] = {T2, TNoSource}
        /\ existing_knowledge[p] = {T2}

\* C7: the only graph writes of a validation run are its clear and the
\* VerifiedSource upserts of its evidence, and when it returns the graph
\* holds no triple that only the draft gave.
C7_DraftNeverWritten ==
    \A p \in workers :
        op[p] = "validate" =>
            /\ \A i \in 1..Len(writes[p]) :
                  \/ i = 1 /\ writes[p][i] = ClearWrite
                  \/ /\ writes[p][i].op = "upsert"
                     /\ writes[p][i].label = "VerifiedSource"
                     /\ writes[p][i].triple \in extracted[p]
            /\ gpc[p] = "report" =>
                  \A t \in user_triplets[p] \ extracted[p] : t \notin graph

\* A run is about to return whose draft gave T1 and whose evidence gave T2.
C7_DraftOnlyTriple ==
    \E p \in workers :
        /\ op[p] = "validate"
        /\ gpc[p] = "report"
        /\ user_triplets[p] = {T1}
        /\ extracted[p] = {T2}
        /\ graph = {T2}

\* The triples worker p has upserted in its current call.
Upserted(p) ==
    {writes[p][i].triple : i \in {j \in 1..Len(writes[p]) : writes[p][j].op = "upsert"}}

\* C8: in a validation run that follows another one, the graph after the
\* sync and the existing_knowledge read from it are exactly the triples the
\* run itself has upserted from its evidence, as on a store that was empty
\* before, and hold a triple of the earlier draft only if the run's own
\* evidence gave it.
C8_SecondRunIsolated ==
    \A p \in workers :
        (op[p] = "validate" /\ validations_done >= 1) =>
            /\ gpc[p] = "read_knowledge" => graph = Upserted(p)
            /\ gpc[p] \in PastRead =>
                  /\ existing_knowledge[p] = Upserted(p)
                  /\ \A t \in last_user_triplets :
                        t \in existing_knowledge[p] => t \in extracted[p]

\* The first run's draft gave T1 and T2; the second run, whose evidence
\* gave only T2, has read its existing_knowledge.
C8_AfterDraftA ==
    \E p \in workers :
        /\ op[p] = "validate"
        /\ validations_done = 1
        /\ last_user_triplets = {T1, T2}
        /\ gpc[p] = "draft_extract"
        /\ extracted[p] = {T2}
        /\ existing_knowledge[p] = {T2}

\* Worker p executes a graph read in this step.
ReadsGraph(p) ==
    \/ gpc[p] \in ReadPositions /\ gpc'[p] # gpc[p]
    \/ gpc[p] = "idle" /\ op'[p] = "analyze"

\* Worker q is between the clear of its validation run and the completion
\* of that run's evidence sync.
InsideClearSync(q) == op[q] = "validate" /\ gpc[q] \in SyncPositions

\* C9: no graph read is executed while another run is between its clear and
\* the completion of its evidence sync.
C9_NoReadInsideClearSync ==
    [][\A p \in Procs : ReadsGraph(p) => \A q \in Procs \ {p} : ~InsideClearSync(q)]_vars

\* C10: no step of an ingestion removes a triple from the graph; the only
\* step that does is the clear at the start of validate_user_article.
C10_IngestionOnlyAdds ==
    [][\/ graph \subseteq graph'
       \/ \E p \in Procs : gpc[p] = "idle" /\ op'[p] = "validate"]_vars

\* An ingestion has added T2 to a graph that held T1, and T1 is still there.
C10_IngestedOnTop ==
    \E p \in workers :
        /\ op[p] = "ingest"
        /\ gpc[p] = "sync_upsert"
        /\ pending[p] = {}
        /\ extracted[p] = {T2}
        /\ graph = {T1, T2}

(***************************************************************************)
(* Properties of calculate_hexagonal_metrics (SpecMetrics).                *)
(***************************************************************************)

\* What metric `name' gets when its own computation is the only one looked
\* at: its value, or 0 when that computation fails.
ValueAlone(name) ==
    LET got == MetricAlone(name, conn_res, depth_res, judge, metric_results)
    IN  IF got.raised THEN 0 ELSE got.value

\* C11: every metric of the returned dict lies in 0..100.
C11_MetricsInRange ==
    mpc = "done" => \A name \in MetricNames : metrics[name] \in 0..100

\* C12: the returned dict has all six fields, a metric whose computation
\* failed is 0, and every other metric has the value its own computation
\* gives, whatever failed before it.
C12_IndependentMetrics ==
    mpc = "done" =>
        /\ DOMAIN metrics = MetricNames
        /\ \A name \in MetricNames : metrics[name] = ValueAlone(name)

\* C13: a judged metric whose judge response is empty or not a number is 0
\* in the returned dict, and the call returns the dict of six fields.
C13_UnparsableJudgeIsZero ==
    mpc = "done" =>
        /\ DOMAIN metrics = MetricNames
        /\ \A name \in JudgedMetrics :
              judge[name].kind \in {"empty", "text"} => metrics[name] = 0

\* The judge gave a number for factuality, an empty text for originality
\* and a text that is no number for insight; the call has returned.
C13_EmptyAndTextJudged ==
    /\ mpc = "done"
    /\ judge["factuality"] = [kind |-> "number", value |-> 50]
    /\ judge["originality"].kind = "empty"
    /\ judge["insight"].kind = "text"
    /\ ~conn_res.raised /\ ~depth_res.raised
    /\ metrics["factuality"] = 50
    /\ caught

\* C14: the returned dict holds, besides the six metrics, an aggregate that
\* is the arithmetic mean of the six.
C14_AggregateIsMean ==
    mpc = "done" =>
        /\ "aggregate" \in DOMAIN metrics
        /\ 6 * metrics["aggregate"] =
              metrics["connectivity"] + metrics["factuality"] + metrics["depth"]
              + metrics["originality"] + metrics["density"] + metrics["insight"]

(***************************************************************************)
(* Properties of QueryDecomposer.decompose_article (SpecDecomposer).       *)
(***************************************************************************)

\* The response holds no parsable JSON object, or an object that cannot be
\* turned into facets.
Unparsable ==
    \/ llm_text.kind \in {"no_object", "bad_json", "facets_not_list"}
    \/ llm_text.kind = "facets" /\ \E i \in 1..Len(llm_text.facets) : ~llm_text.facets[i].ok

\* C15: on such a response the call returns exactly one facet, whose query
\* is the first 50 characters of the article and whose dimension is the
\* core-topic label, after a single LLM call and without raising.
C15_FallbackFacet ==
    Unparsable =>
        /\ dpc # "raised"
        /\ dpc = "done" =>
              /\ Len(analysis.facets) = 1
              /\ analysis.facets[1].facet_query =
                    SubSeq(article_content, 1, Min(FacetQueryLen, Len(article_content)))
              /\ analysis.facets[1].dimension = CoreTopic
              /\ acomplete_calls = 1

\* A response without any JSON object for an article longer than 50
\* characters has been answered.
C15_LongArticleNoJson ==
    /\ dpc = "done"
    /\ llm_text.kind = "no_object"
    /\ article_content = LongArticle
    /\ Len(analysis.facets[1].facet_query) = FacetQueryLen

\* C16: the returned AnalysisResult holds at least 1 and at most 5 facets.
C16_OneToFiveFacets ==
    dpc = "done" => Len(analysis.facets) \in 1..5

(***************************************************************************)
(* Further properties of RLMEvaluator (SpecVerifier).                      *)
(***************************************************************************)

\* C17: decompose_claims returns a list of strings: the parsed list when the
\* response is a JSON list of strings, the one-element list holding the
\* whole input text otherwise.
C17_ParsedListOrWholeText ==
    vpc \in {"verifying", "done"} =>
        /\ claims.type = "list"
        /\ claims.items = IF response.json = "list" THEN response.items ELSE <<proposal>>

\* The confidences, in tenths, of the results of a trace, added up.
RECURSIVE TotalOf(_)
TotalOf(results) ==
    IF results = <<>> THEN 0 ELSE results[1].confidence + TotalOf(Tail(results))

\* C18: the score of the returned trace is the mean of the confidences of
\* its per-claim results, 0 when there are none, and lies in [0, 1]
\* (confidences and total are in tenths, the score is the fraction
\* score[1] / score[2] of tenths).
C18_ScoreIsMean ==
    vpc = "done" =>
        LET n == Len(trace.claims)
        IN  /\ n = Len(claims.items)
            /\ trace.score[2] > 0
            /\ n = 0 => trace.score[1] = 0
            /\ n > 0 => trace.score[1] * n = TotalOf(trace.claims) * trace.score[2]
            /\ 0 <= trace.score[1] /\ trace.score[1] <= 10 * trace.score[2]

\* evaluate has returned a trace of two claims, one verified with
\* confidence 0.9 and one whose verification raised: the score is 0.45.
C18_TwoClaimsScored ==
    /\ vpc = "done"
    /\ Len(trace.claims) = 2
    /\ trace.claims[1].confidence = 9
    /\ trace.claims[2].confidence = 0
    /\ trace.score = <<9, 2>>

\* C19: below max_depth, verify_claim gives verified = true only when the
\* agent's verdict is True, and a confidence within [0, 1].
C19_VerdictDecides ==
    (vpc = "vc_done" /\ vc_depth < max_depth /\ vc_result.output \in AgentAnswers) =>
        /\ vc_result.verified = (vc_result.output = "True")
        /\ vc_result.confidence \in 0..10

(***************************************************************************)
(* Further properties of KnowledgeGraphManager (SpecGraphSeq).             *)
(***************************************************************************)

\* C20: a sync in which the extraction of one document of the batch failed
\* does not raise: it goes on to write the triples of the other documents.
C20_PartialSuccess ==
    \A p \in workers :
        failed_docs[p] # {} =>
            /\ gpc[p] # "sync_raised"
            /\ gpc[p] \in SyncPositions


-----------------------------------------------------------------------------
(***************************************************************************)
(* Ties and repeated identities in the fusion.                             *)
(***************************************************************************)

\* The first position of identity `id' in `docs', 0 when it is not there.
FirstAt(docs, id) ==
    IF \E i \in 1..Len(docs) : doc_id(docs[i]) = id
    THEN CHOOSE i \in 1..Len(docs) :
             /\ doc_id(docs[i]) = id
             /\ \A j \in 1..(i - 1) : doc_id(docs[j]) # id
    ELSE 0

\* The last position of identity `id' in `docs', 0 when it is not there.
LastAt(docs, id) ==
    IF \E i \in 1..Len(docs) : doc_id(docs[i]) = id
    THEN CHOOSE i \in 1..Len(docs) :
             /\ doc_id(docs[i]) = id
             /\ \A j \in (i + 1)..Len(docs) : doc_id(docs[j]) # id
    ELSE 0

\* Retrieval-list order: the sparse hits in sparse order, then the
\* dense-only hits in dense order.
ListRank(id) ==
    IF FirstAt(sparse_docs, id) # 0 THEN FirstAt(sparse_docs, id)
    ELSE Len(sparse_docs) + FirstAt(dense_docs, id)

RECURSIVE SumOfSet(_)
SumOfSet(S) ==
    IF S = {} THEN 0
    ELSE LET x == CHOOSE y \in S : TRUE IN x + SumOfSet(S \ {x})

\* What the dense list added to the score of identity `id'.
DenseTotal(id) == SumOfSet(Contributions(dense_docs, id))

\* C24: fused documents of equal accumulated score stand in retrieval-list
\* order, sparse hits in sparse order before dense-only hits in dense order,
\* and the returned list is the head of that order.
C24_TiesKeepListOrder ==
    fpc = "done" =>
        /\ \A i, j \in 1..Len(sorted_results) :
              (i < j /\ sorted_results[i].score = sorted_results[j].score) =>
                  ListRank(sorted_results[i].id) < ListRank(sorted_results[j].id)
        /\ \A i \in 1..Len(fused) : fused[i] = sorted_results[i].doc

\* Two returned documents tie, the first a sparse hit and the second a
\* dense-only hit.
C24_TieReturned ==
    /\ fpc = "done"
    /\ Len(fused) = 2
    /\ sorted_results[1].score = sorted_results[2].score
    /\ FirstAt(sparse_docs, sorted_results[1].id) # 0
    /\ FirstAt(sparse_docs, sorted_results[2].id) = 0

\* C29: an identity that occurs at several sparse ranks keeps only the
\* sparse contribution of its last occurrence, so that its score without
\* the dense part is not above the contribution of its best sparse rank.
C29_LastSparseOccurrenceKept ==
    fpc = "done" =>
        \A e \in Range(doc_scores) :
            FirstAt(sparse_docs, e.id) # LastAt(sparse_docs, e.id) =>
                /\ e.score - DenseTotal(e.id) = RrfScore(LastAt(sparse_docs, e.id) - 1)
                /\ e.score - DenseTotal(e.id) <= RrfScore(FirstAt(sparse_docs, e.id) - 1)
                /\ e.doc = sparse_docs[LastAt(sparse_docs, e.id)]

\* The identity of article A is the first and the third sparse hit and a
\* dense hit as well.
C29_RepeatedSparseIdentity ==
    /\ fpc = "done"
    /\ Len(sparse_docs) = 3
    /\ doc_id(sparse_docs[1]) = doc_id(sparse_docs[3])
    /\ DenseTotal(doc_id(sparse_docs[1])) > 0
    /\ \E e \in Range(doc_scores) :
          /\ e.id = doc_id(sparse_docs[1])
          /\ e.score = RrfScore(2) + DenseTotal(e.id)

-----------------------------------------------------------------------------
(***************************************************************************)
(* The top-level calls: failures of LLM calls, and the order of the        *)
(* verifications.                                                          *)
(***************************************************************************)

\* C23: evaluate returns a report when the completion call of the
\* decomposition fails: the call does not raise and goes on with the
\* fallback claim list, the proposal as its single claim.
C23_EvaluateSurvivesLlmFailure ==
    (vpc \in {"verifying", "done", "raised"} /\ response.kind = "error") =>
        /\ vpc # "raised"
        /\ claims = JsonValue("list", <<proposal>>)

\* C27: evaluate verifies the claims in decomposition order, one sub-agent
\* run per claim and result, the run of a claim started only when the
\* results of all the claims before it are there, and the report lists one
\* result per claim in that order.
C27_ClaimsVerifiedInOrder ==
    vpc \in {"verifying", "done"} =>
        /\ Len(verification_results) <= Len(claims.items)
        /\ Len(agent_runs) = Len(verification_results)
        /\ \A i \in 1..Len(verification_results) :
              /\ verification_results[i].claim = claims.items[i]
              /\ agent_runs[i].claim = claims.items[i]
        /\ vpc = "done" =>
              /\ trace.claims = verification_results
              /\ Len(trace.claims) = Len(claims.items)

\* A report on two different claims, in their decomposition order.
C27_TwoClaimsReported ==
    /\ vpc = "done"
    /\ claims.items = <<"claim1", "claim2">>
    /\ Len(trace.claims) = 2
    /\ trace.claims[1].claim = "claim1"
    /\ trace.claims[2].claim = "claim2"
    /\ Len(agent_runs) = 2

-----------------------------------------------------------------------------
(***************************************************************************)
(* The formulas of connectivity and density.                               *)
(***************************************************************************)

\* a / b rounded to the nearest integer, for a >= 0 and b > 0.
RoundDiv(a, b) == (2 * a + b) \div (2 * b)

AtLeastOne(n) == IF n >= 1 THEN n ELSE 1

\* The relations the rows stand for, and their distinct entities.
RECURSIVE RelationCount(_)
RelationCount(rows) ==
    IF rows = <<>> THEN 0 ELSE Head(rows).relations + RelationCount(Tail(rows))

Entities(rows) == UNION {rows[i].entities : i \in 1..Len(rows)}

\* C25: for the counts the connectivity query returns, connectivity is
\* min(100, round(edges / max(1, nodes) * 10)), and 0 when the graph is
\* empty.
C25_ConnectivityFormula ==
    (mpc = "done" /\ ~conn_res.raised) =>
        metrics["connectivity"] =
            IF conn_res.rows = <<>> THEN 0
            ELSE Min(100, RoundDiv(conn_res.rows[1].connections * 10,
                                   AtLeastOne(conn_res.rows[1].nodes)))

\* C26: density is min(100, round(relations / max(1, distinct entities) * 20))
\* of the rows passed, query-result rows and draft triples alike.
C26_DensityFormula ==
    (mpc = "done" /\ ~caught) =>
        metrics["density"] =
            Min(100, RoundDiv(RelationCount(metric_results) * 20,
                              AtLeastOne(Cardinality(Entities(metric_results)))))

-----------------------------------------------------------------------------
(***************************************************************************)
(* analyze_with_cypher: a failing query, and a query without rows.         *)
(***************************************************************************)

\* C21: when running the generated query fails, the call returns an error
\* string, and that string includes the text of the query.
C21_ErrorStringNamesQuery ==
    (apc = "returned" /\ query_outcome.raised) =>
        /\ analysis_report.type = "str"
        /\ cypher_query \in Range(analysis_report.text)

-----------------------------------------------------------------------------
(***************************************************************************)
(* recommend_similar_articles: the merge and the order of completion.      *)
(***************************************************************************)

\* The places <<facet, rank>> of the nodes found.
Places == UNION {{<<i, j>> : j \in 1..Len(facet_hits[i])} : i \in 1..Len(facet_hits)}

\* The places where node `id' was found.
FoundAt(id) == {pl \in Places : facet_hits[pl[1]][pl[2]].node_id = id}

Before(a, b) == a[1] < b[1] \/ (a[1] = b[1] /\ a[2] < b[2])

\* The first place of node `id', facets in their order.
FirstFound(id) == CHOOSE a \in FoundAt(id) : \A b \in FoundAt(id) : a = b \/ Before(a, b)

FoundIds == {facet_hits[pl[1]][pl[2]].node_id : pl \in Places}

\* C28: there is one retrieval per facet; nothing is merged before all of
\* them completed; and the merged nodes depend on what the retrievals found
\* only, never on the order of their completion: one entry per node id
\* found, the entry of its first place in facet order, in that order.
C28_MergeIgnoresCompletionOrder ==
    /\ rpc # "idle" => Len(search_tasks) = Len(facet_hits)
    /\ rpc # "merged" => unique_nodes = <<>> /\ search_results = <<>>
    /\ rpc = "merged" =>
          /\ \A i \in 1..Len(search_tasks) : search_tasks[i] = "done"
          /\ Len(completion_order) = Len(search_tasks)
          /\ {unique_nodes[i].node_id : i \in 1..Len(unique_nodes)} = FoundIds
          /\ Len(unique_nodes) = Cardinality(FoundIds)
          /\ \A i \in 1..Len(unique_nodes) :
                LET at == FirstFound(unique_nodes[i].node_id)
                IN  unique_nodes[i] = facet_hits[at[1]][at[2]]
          /\ \A i, j \in 1..Len(unique_nodes) :
                i < j => Before(FirstFound(unique_nodes[i].node_id),
                                FirstFound(unique_nodes[j].node_id))
          /\ final_nodes = unique_nodes

\* The retrieval of the second facet completed before that of the first,
\* and both found node n1, with different scores.
C28_CompletedOutOfOrder ==
    /\ rpc = "merged"
    /\ Len(completion_order) >= 2
    /\ completion_order[1] = 2
    /\ facet_hits[1] = <<NodeWithScore("n1", 9)>>
    /\ facet_hits[2] = <<NodeWithScore("n2", 8), NodeWithScore("n1", 7)>>
    /\ Len(unique_nodes) >= 2
    /\ unique_nodes[1] = NodeWithScore("n1", 9)
    /\ unique_nodes[2] = NodeWithScore("n2", 8)

-----------------------------------------------------------------------------
(***************************************************************************)
(* NewsAppGraph: the order of the nodes.                                   *)
(***************************************************************************)

NodeOrder == <<"analyze_article", "retrieve_rag", "reason_graph", "synthesize">>

====
